---- MODULE Spec2Model ----
(***************************************************************************)
(* A model of the go-themoviedb client library (src/tmdb.go).              *)
(*                                                                         *)
(* The library's state is one TMDb value (api_key, config).  Its public    *)
(* operations are MovieData (a chain of HTTP GETs: search, details,        *)
(* credits, configuration) and ToJSON (a local transformation).  The       *)
(* remote service is the environment: every GET is answered by a response  *)
(* drawn from a small set (transport error, or a status code and a body).  *)
(*                                                                         *)
(* Representation:                                                         *)
(*  - a Go pointer is a sequence of length 0 (nil) or 1 (the pointee);     *)
(*    a tmdbConfig is never written after it is stored, so the pointee is  *)
(*    held by value;                                                       *)
(*  - a Go error is a string, "" being nil;                                *)
(*  - a serialized string (an HTTP body, MovieData's result, ToJSON's      *)
(*    input and output) is a document [json |-> kind, ...] which           *)
(*    json.Unmarshal decodes and json.Marshal builds;                      *)
(*  - struct fields that no code path reads or writes (Backdrop_path,      *)
(*    Imdb_id, Overview, Page, Secure_base_url, ...) are left out.         *)
(***************************************************************************)
EXTENDS Integers, Sequences, FiniteSets, TLC

VARIABLES
    api_key,        \* tmdb.api_key
    config,         \* tmdb.config, a pointer to a tmdbConfig
    pc,             \* per caller: where its current library call stands
    media_name,     \* per caller: MovieData's argument
    data,           \* per caller: ToJSON's argument
    results,        \* per caller: MovieData's local `results`
    movie_details,  \* per caller: MovieData's local `movie_details`
    ret,            \* per caller: what the last call returned
    http,           \* per caller: the GETs its current call made, each with its response
    fault,          \* the run-time panic that ended the program, "" if none
    unit            \* a direct call of poster_size: its input and result

tmdbVars == <<api_key, config>>
callVars == <<pc, media_name, data, results, movie_details, ret, http>>
vars == <<api_key, config, pc, media_name, data, results, movie_details,
          ret, http, fault, unit>>

-----------------------------------------------------------------------------
(* Bounds of the input sets.                                               *)

\* the longest Release_date drawn is the first MaxDateLen bytes of FullDate
MaxDateLen == 5
\* the longest Poster_sizes list drawn
MaxSizes == 2

-----------------------------------------------------------------------------
(* Pointers, errors, documents.                                            *)

Nil == <<>>
Ptr(v) == <<v>>
Deref(p) == p[1]

NoError == ""
ErrTransport == "Get: dial tcp: connection refused"
ErrDecode == "invalid character in JSON input"
ErrNoResults == "No results found at TMDb"
ErrPerson == "Metadata for persons not supported"
ErrTv == "Metadata for tv not supported inside a call for movie data"
PanicIndex == "panic: runtime error: index out of range"
PanicSlice == "panic: runtime error: slice bounds out of range"
PanicNil == "panic: runtime error: invalid memory address or nil pointer dereference"

\* the message without the code
error_status_noCode(status) == "Status Code received from TMDb"

error_status(status) == "Status Code " \o ToString(status) \o " received from TMDb"

\* the empty Go string; not a JSON text
EmptyString == [json |-> "empty"]
\* a string that is not a JSON text of the shape the target type needs
JInvalid == [json |-> "invalid"]
\* the JSON text null
JNull == [json |-> "null"]
\* a JSON object, held as the record of its members
JObject(o) == [json |-> "object", members |-> o]

-----------------------------------------------------------------------------
(* The types of src/tmdb.go and their zero values.                         *)

ZeroImages == [Base_url |-> "", Poster_sizes |-> <<>>]
ZeroConfig == [Images |-> ZeroImages]
ZeroCredits == [Id |-> 0, Cast |-> <<>>, Crew |-> <<>>]
ZeroResponse == [Results |-> <<>>, Total_results |-> 0]
ZeroMetadata ==
    [Id |-> 0, Media_type |-> "", Poster_path |-> "", Credits |-> ZeroCredits,
     Config |-> Nil, Title |-> "", Release_date |-> ""]

-----------------------------------------------------------------------------
(* What the environment supplies: arguments and HTTP responses.            *)

Callers == {"c1", "c2"}
ApiKeys == {"your-api-key"}
MediaNames == {"Pulp Fiction"}

FullDate == "1994-10-14"
\* Release_date strings: ASCII, one byte per character, so Go's len and
\* slice, which count bytes, count characters
Dates == {SubSeq(FullDate, 1, n) : n \in 0..MaxDateLen} \cup {FullDate}
Titles == {"Pulp Fiction", ""}
PosterPaths == {"/poster.jpg", ""}
\* the dates /movie/{id} reports: one longer than a year, one shorter
DetailsDates == {FullDate, SubSeq(FullDate, 1, 2)}

\* size tokens as the service lists them, "original" among them
SizeTokens == {"w92", "w154", "w185", "original"}
SizeLists == UNION {[1..n -> SizeTokens] : n \in 0..MaxSizes}
BaseUrls == {"http://img/", ""}
Configs == {[Images |-> [Base_url |-> b, Poster_sizes |-> l]] :
                b \in BaseUrls, l \in SizeLists}

\* the configurations the remote service serves
ServedConfigs ==
    {[Images |-> [Base_url |-> "http://img/", Poster_sizes |-> <<"w154">>]],
     [Images |-> [Base_url |-> "http://img/", Poster_sizes |-> <<"w92", "w185">>]],
     [Images |-> [Base_url |-> "http://img/", Poster_sizes |-> <<>>]],
     ZeroConfig}

MediaTypes == {"movie", "tv", "person", "", "collection"}
FirstResults == {[Id |-> 680, Media_type |-> m] : m \in MediaTypes}
                    \cup {[Id |-> 11, Media_type |-> "movie"]}
LaterResult == [Id |-> 603, Media_type |-> "tv"]
ResultLists == {<<>>} \cup {<<r>> : r \in FirstResults}
                      \cup {<<r, LaterResult>> : r \in FirstResults}
SearchValues == {[Results |-> l, Total_results |-> t] :
                     l \in ResultLists, t \in {0, 1}}

SomeCredits ==
    [Id |-> 680,
     Cast |-> <<[Character |-> "Vincent Vega", Name |-> "John Travolta"]>>,
     Crew |-> <<[Job |-> "Director", Name |-> "Quentin Tarantino"]>>]
CreditsValues == {ZeroCredits, SomeCredits}

\* what /movie/{id} reports about itself: as asked, or something else
DetailsSelf == {[Id |-> 680, Media_type |-> "movie"], [Id |-> 999, Media_type |-> "tv"]}

StatusCodes == {200, 201, 404, 500}

\* the members of a JSON object that json.Unmarshal reads into a
\* movieMetadata; a key the text does not hold reads as null
MetadataMembers(self, title, date, poster, credits, conf) ==
    [Id |-> self.Id, Media_type |-> self.Media_type, Poster_path |-> poster,
     Credits |-> credits, Config |-> conf, Title |-> title, Release_date |-> date]

SearchBodies == {JInvalid, JNull} \cup {JObject(v) : v \in SearchValues}
DetailsBodies ==
    {JInvalid, JNull} \cup
    {JObject(MetadataMembers(s, t, d, p, JNull, JNull)) :
        s \in DetailsSelf, t \in Titles, d \in DetailsDates, p \in PosterPaths}
CreditsBodies == {JInvalid, JNull} \cup {JObject(v) : v \in CreditsValues}
ConfigBodies == {JInvalid, JNull} \cup {JObject(v) : v \in ServedConfigs}

\* an HTTP exchange: http.Get fails, or yields a status code and a body
TransportFailure == [err |-> ErrTransport, StatusCode |-> 0, Body |-> EmptyString]
Responses(bodies) ==
    {TransportFailure} \cup
    {[err |-> NoError, StatusCode |-> c, Body |-> b] : c \in StatusCodes, b \in bodies}

\* the strings handed to ToJSON besides MovieData's own output
ToJSONInputs ==
    {EmptyString, JInvalid, JNull} \cup
    {JObject(MetadataMembers([Id |-> 680, Media_type |-> "movie"], t, d, p,
                             JObject(ZeroCredits), c)) :
        t \in Titles, d \in Dates, p \in PosterPaths,
        c \in {JNull} \cup {JObject(v) : v \in Configs}}

-----------------------------------------------------------------------------
(* encoding/json, as the library uses it.                                  *)

IsJSON(doc) == doc.json \in {"null", "object"}

\* json.Unmarshal(body, &v) for a struct v holding its zero value: null
\* leaves v alone, an object is read into it
UnmarshalStruct(doc, zero) ==
    IF ~IsJSON(doc) THEN [val |-> zero, err |-> ErrDecode]
    ELSE IF doc.json = "null" THEN [val |-> zero, err |-> NoError]
    ELSE [val |-> doc.members, err |-> NoError]

\* json.Unmarshal(body, &conf) for conf a *tmdbConfig pointing at a fresh
\* tmdbConfig{}: null sets the pointer itself to nil
UnmarshalConfigPtr(doc) ==
    IF ~IsJSON(doc) THEN [val |-> Ptr(ZeroConfig), err |-> ErrDecode]
    ELSE IF doc.json = "null" THEN [val |-> Nil, err |-> NoError]
    ELSE [val |-> Ptr(doc.members), err |-> NoError]

\* json.Unmarshal(data, &det) for a movieMetadata: the embedded Credits
\* struct and the Config pointer are read from their own members
UnmarshalMetadata(doc) ==
    IF ~IsJSON(doc) THEN [val |-> ZeroMetadata, err |-> ErrDecode]
    ELSE IF doc.json = "null" THEN [val |-> ZeroMetadata, err |-> NoError]
    ELSE LET m == doc.members IN
         [val |-> [Id |-> m.Id, Media_type |-> m.Media_type,
                   Poster_path |-> m.Poster_path,
                   Credits |-> IF m.Credits.json = "null" THEN ZeroCredits
                               ELSE m.Credits.members,
                   Config |-> IF m.Config.json = "null" THEN Nil
                              ELSE Ptr(m.Config.members),
                   Title |-> m.Title, Release_date |-> m.Release_date],
          err |-> NoError]

\* json.Marshal(movie_details): it cannot fail on these field types; a nil
\* Config pointer is written as null
MarshalMetadata(md) ==
    JObject(MetadataMembers(md, md.Title, md.Release_date, md.Poster_path,
                            JObject(md.Credits),
                            IF md.Config = Nil THEN JNull
                            ELSE JObject(Deref(md.Config))))

\* json.Marshal(f) for a filtered_output, with its json tags
MarshalOutput(f) == JObject([title |-> f.Title, artwork |-> f.Artwork, year |-> f.Release_date])

-----------------------------------------------------------------------------
(* The Remote Service Gateway functions: one GET each, then status check   *)
(* and decode.  ioutil.ReadAll's error is overwritten by json.Unmarshal's  *)
(* (the two share `err`), so after a 200 only the decode decides.          *)

Request(path, key, query) == [path |-> path, api_key |-> key, query |-> query]
searchMovieURL(key, name) == Request("/search/movie", key, name)
movieDetailsURL(key, MediaId) == Request("/movie/" \o MediaId, key, "")
movieCreditsURL(key, MediaId) == Request("/movie/" \o MediaId \o "/credits", key, "")
configURL(key) == Request("/configuration", key, "")

\* one GET as the call's log keeps it
Exchange(req, res) == [req |-> req, res |-> res]

\* strconv.Itoa
Itoa(i) == ToString(i)

searchMovie(res) ==
    IF res.err # NoError THEN [val |-> ZeroResponse, err |-> res.err]
    ELSE IF res.StatusCode # 200
         THEN [val |-> ZeroResponse, err |-> error_status(res.StatusCode)]
    ELSE LET d == UnmarshalStruct(res.Body, ZeroResponse) IN
         IF d.err # NoError THEN [val |-> ZeroResponse, err |-> d.err]
         ELSE [val |-> d.val, err |-> NoError]

\* getMovieDetails without its status test
getMovieDetails_noStatusTest(res) ==
    IF res.err # NoError THEN [val |-> ZeroMetadata, err |-> res.err]
    ELSE LET d == UnmarshalMetadata(res.Body) IN
         IF d.err # NoError THEN [val |-> ZeroMetadata, err |-> d.err]
         ELSE [val |-> d.val, err |-> NoError]

getMovieDetails(res) ==
    IF res.err # NoError THEN [val |-> ZeroMetadata, err |-> res.err]
    ELSE IF res.StatusCode # 200
         THEN [val |-> ZeroMetadata, err |-> error_status(res.StatusCode)]
    ELSE LET d == UnmarshalMetadata(res.Body) IN
         IF d.err # NoError THEN [val |-> ZeroMetadata, err |-> d.err]
         ELSE [val |-> d.val, err |-> NoError]

\* getMovieCredits handing back the zero value in place of a decode error
getMovieCredits_swallowDecode(res) ==
    IF res.err # NoError THEN [val |-> ZeroCredits, err |-> res.err]
    ELSE IF res.StatusCode # 200
         THEN [val |-> ZeroCredits, err |-> error_status(res.StatusCode)]
    ELSE LET d == UnmarshalStruct(res.Body, ZeroCredits) IN
         IF d.err # NoError THEN [val |-> ZeroCredits, err |-> NoError]
         ELSE [val |-> d.val, err |-> NoError]

getMovieCredits(res) ==
    IF res.err # NoError THEN [val |-> ZeroCredits, err |-> res.err]
    ELSE IF res.StatusCode # 200
         THEN [val |-> ZeroCredits, err |-> error_status(res.StatusCode)]
    ELSE LET d == UnmarshalStruct(res.Body, ZeroCredits) IN
         IF d.err # NoError THEN [val |-> ZeroCredits, err |-> d.err]
         ELSE [val |-> d.val, err |-> NoError]

\* the test with its comparison turned around
NeedsFetch_inverted(c) == c = Nil \/ Deref(c).Images.Base_url # ""

\* a test that looks for a nil cache only
NeedsFetch_nilOnly(c) == c = Nil

\* getConfig's test of the cache
NeedsFetch(c) == c = Nil \/ Deref(c).Images.Base_url = ""

\* the fetch branch taking every 2xx status for success
fetchConfig_any2xx(res) ==
    IF res.err # NoError THEN [val |-> Ptr(ZeroConfig), err |-> res.err]
    ELSE IF res.StatusCode \notin 200..299
         THEN [val |-> Ptr(ZeroConfig), err |-> error_status(res.StatusCode)]
    ELSE LET d == UnmarshalConfigPtr(res.Body) IN
         IF d.err # NoError THEN [val |-> Ptr(ZeroConfig), err |-> d.err]
         ELSE [val |-> d.val, err |-> NoError]

\* getConfig's fetch branch, up to the value it is about to store
fetchConfig(res) ==
    IF res.err # NoError THEN [val |-> Ptr(ZeroConfig), err |-> res.err]
    ELSE IF res.StatusCode # 200
         THEN [val |-> Ptr(ZeroConfig), err |-> error_status(res.StatusCode)]
    ELSE LET d == UnmarshalConfigPtr(res.Body) IN
         IF d.err # NoError THEN [val |-> Ptr(ZeroConfig), err |-> d.err]
         ELSE [val |-> d.val, err |-> NoError]

\* the tests with "no results" read off the slice instead of the count
checkResults_byLength(r) ==
    IF Len(r.Results) = 0 THEN [err |-> ErrNoResults, fault |-> ""]
    ELSE IF r.Results[1].Media_type = "person" THEN [err |-> ErrPerson, fault |-> ""]
    ELSE IF r.Results[1].Media_type = "tv" THEN [err |-> ErrTv, fault |-> ""]
    ELSE [err |-> NoError, fault |-> ""]

\* the tests letting only "movie" through
checkResults_onlyMovie(r) ==
    IF r.Total_results = 0 THEN [err |-> ErrNoResults, fault |-> ""]
    ELSE IF Len(r.Results) = 0 THEN [err |-> NoError, fault |-> PanicIndex]
    ELSE IF r.Results[1].Media_type = "person" THEN [err |-> ErrPerson, fault |-> ""]
    ELSE IF r.Results[1].Media_type # "movie" THEN [err |-> ErrTv, fault |-> ""]
    ELSE [err |-> NoError, fault |-> ""]

\* the tests turning a search down for a series anywhere in its results
checkResults_anyTv(r) ==
    IF r.Total_results = 0 THEN [err |-> ErrNoResults, fault |-> ""]
    ELSE IF Len(r.Results) = 0 THEN [err |-> NoError, fault |-> PanicIndex]
    ELSE IF r.Results[1].Media_type = "person" THEN [err |-> ErrPerson, fault |-> ""]
    ELSE IF \E i \in 1..Len(r.Results) : r.Results[i].Media_type = "tv"
         THEN [err |-> ErrTv, fault |-> ""]
    ELSE [err |-> NoError, fault |-> ""]

\* MovieData's tests of the search response; Results[0] of an empty slice
\* panics
checkResults(r) ==
    IF r.Total_results = 0 THEN [err |-> ErrNoResults, fault |-> ""]
    ELSE IF Len(r.Results) = 0 THEN [err |-> NoError, fault |-> PanicIndex]
    ELSE IF r.Results[1].Media_type = "person" THEN [err |-> ErrPerson, fault |-> ""]
    ELSE IF r.Results[1].Media_type = "tv" THEN [err |-> ErrTv, fault |-> ""]
    ELSE [err |-> NoError, fault |-> ""]

\* the last assignments without the one to Id
finishDetails_keepId(md, r) == [md EXCEPT !.Media_type = "movie"]

\* MovieData's last assignments to movie_details
finishDetails(md, r) == [md EXCEPT !.Id = r.Results[1].Id, !.Media_type = "movie"]

-----------------------------------------------------------------------------
(* The Output Transformer.                                                 *)

\* poster_size falling back to "original" when the size is not listed
poster_size_fallbackOriginal(md, size) ==
    IF md.Config = Nil THEN [val |-> "", fault |-> PanicNil]
    ELSE LET sizes == Deref(md.Config).Images.Poster_sizes IN
         IF Len(sizes) = 0 THEN [val |-> "original", fault |-> ""]
         ELSE IF \E i \in 1..Len(sizes) : sizes[i] = size
              THEN [val |-> size, fault |-> ""]
         ELSE [val |-> "original", fault |-> ""]

\* md.Config.Images dereferences md.Config: a nil Config panics
poster_size(md, size) ==
    IF md.Config = Nil THEN [val |-> "", fault |-> PanicNil]
    ELSE LET sizes == Deref(md.Config).Images.Poster_sizes IN
         IF Len(sizes) = 0 THEN [val |-> "original", fault |-> ""]
         ELSE IF \E i \in 1..Len(sizes) : sizes[i] = size
              THEN [val |-> size, fault |-> ""]
         ELSE [val |-> sizes[1], fault |-> ""]

\* s[lo:hi] on a Go string: hi beyond len(s) panics
Slice(s, lo, hi) ==
    IF hi > Len(s) THEN [val |-> "", fault |-> PanicSlice]
    ELSE [val |-> SubSeq(s, lo + 1, hi), fault |-> ""]

\* the year cut without the length test
Year_noLengthTest(Release_date) == Slice(Release_date, 0, 4)

\* ToJSON's f.Release_date
Year(Release_date) ==
    IF Len(Release_date) > 4 THEN Slice(Release_date, 0, 4)
    ELSE [val |-> Release_date, fault |-> ""]

\* ToJSON reading sizes and base URL from the client's cache when it has one
ToJSON_cachedConfig(d) ==
    LET u == UnmarshalMetadata(d) IN
    IF u.err # NoError THEN [val |-> EmptyString, err |-> u.err, fault |-> ""]
    ELSE LET det == [u.val EXCEPT !.Config = IF config # Nil THEN config ELSE @]
             year == Year(det.Release_date)
             size == poster_size(det, "w154")
         IN  IF year.fault # "" THEN [val |-> EmptyString, err |-> NoError, fault |-> year.fault]
             ELSE IF size.fault # ""
                  THEN [val |-> EmptyString, err |-> NoError, fault |-> size.fault]
             ELSE LET f == [Title |-> det.Title,
                            Artwork |-> Deref(det.Config).Images.Base_url \o size.val
                                            \o det.Poster_path,
                            Release_date |-> year.val]
                  IN  [val |-> MarshalOutput(f), err |-> NoError, fault |-> ""]

ToJSON(d) ==
    LET u == UnmarshalMetadata(d) IN
    IF u.err # NoError THEN [val |-> EmptyString, err |-> u.err, fault |-> ""]
    ELSE LET det == u.val
             year == Year(det.Release_date)
             size == poster_size(det, "w154")
         IN  IF year.fault # "" THEN [val |-> EmptyString, err |-> NoError, fault |-> year.fault]
             ELSE IF size.fault # ""
                  THEN [val |-> EmptyString, err |-> NoError, fault |-> size.fault]
             ELSE LET f == [Title |-> det.Title,
                            Artwork |-> Deref(det.Config).Images.Base_url \o size.val
                                            \o det.Poster_path,
                            Release_date |-> year.val]
                  IN  [val |-> MarshalOutput(f), err |-> NoError, fault |-> ""]

-----------------------------------------------------------------------------
(* The state machine.  A caller is idle, inside MovieData (pc names the    *)
(* call it is about to make), or holds what its last call returned.        *)
(* MovieData's locals are kept after it returns, until the caller drops    *)
(* the result, so that the result can be compared with them.               *)

NoReturn == [op |-> "", val |-> EmptyString, err |-> NoError]
NoUnit == [state |-> "off", md |-> ZeroMetadata, size |-> "",
           out |-> [val |-> "", fault |-> ""]]

\* Init(api_key): the TMDb value holds the key and a nil config
InitClient ==
    /\ api_key \in ApiKeys
    /\ config = Nil
    /\ pc = [p \in Callers |-> "idle"]
    /\ media_name = [p \in Callers |-> ""]
    /\ data = [p \in Callers |-> EmptyString]
    /\ results = [p \in Callers |-> ZeroResponse]
    /\ movie_details = [p \in Callers |-> ZeroMetadata]
    /\ ret = [p \in Callers |-> NoReturn]
    /\ http = [p \in Callers |-> <<>>]
    /\ fault = ""

Init == InitClient /\ unit = NoUnit

Running == fault = ""

\* `return met, err` out of MovieData
Return(p, val, err) ==
    /\ pc' = [pc EXCEPT ![p] = "returned"]
    /\ ret' = [ret EXCEPT ![p] = [op |-> "MovieData", val |-> val, err |-> err]]

\* an unrecovered panic ends the program
Panic(p, what) ==
    /\ pc' = [pc EXCEPT ![p] = "panicked"]
    /\ fault' = what

\* a caller enters MovieData(media_name)
MovieData_call(p, name) ==
    /\ Running
    /\ pc[p] = "idle"
    /\ pc' = [pc EXCEPT ![p] = "searchMovie"]
    /\ media_name' = [media_name EXCEPT ![p] = name]
    /\ UNCHANGED <<api_key, config, data, results, movie_details, ret, http, fault, unit>>

\* results, err := tmdb.searchMovie(media_name), and the tests on results
MovieData_search(p, res) ==
    /\ Running
    /\ pc[p] = "searchMovie"
    /\ http' = [http EXCEPT ![p] = Append(@, Exchange(searchMovieURL(api_key, media_name[p]), res))]
    /\ LET r == searchMovie(res)
           c == checkResults(r.val)
       IN  /\ results' = [results EXCEPT ![p] = r.val]
           /\ IF r.err # NoError
                 THEN Return(p, EmptyString, r.err) /\ UNCHANGED fault
              ELSE IF c.fault # ""
                 THEN Panic(p, c.fault) /\ UNCHANGED ret
              ELSE IF c.err # NoError
                 THEN Return(p, EmptyString, c.err) /\ UNCHANGED fault
              ELSE /\ pc' = [pc EXCEPT ![p] = "getMovieDetails"]
                   /\ UNCHANGED <<ret, fault>>
    /\ UNCHANGED <<api_key, config, media_name, data, movie_details, unit>>

\* movie_details, err := tmdb.getMovieDetails(strconv.Itoa(results.Results[0].Id))
MovieData_details(p, res) ==
    /\ Running
    /\ pc[p] = "getMovieDetails"
    /\ http' = [http EXCEPT ![p] =
                   Append(@, Exchange(movieDetailsURL(api_key, Itoa(results[p].Results[1].Id)), res))]
    /\ LET r == getMovieDetails(res)
       IN  /\ movie_details' = [movie_details EXCEPT ![p] = r.val]
           /\ IF r.err # NoError
                 THEN Return(p, EmptyString, r.err)
                 ELSE /\ pc' = [pc EXCEPT ![p] = "getMovieCredits"]
                      /\ UNCHANGED ret
    /\ UNCHANGED <<api_key, config, media_name, data, results, fault, unit>>

\* movie_details.Credits, err = tmdb.getMovieCredits(...)
MovieData_credits(p, res) ==
    /\ Running
    /\ pc[p] = "getMovieCredits"
    /\ http' = [http EXCEPT ![p] =
                   Append(@, Exchange(movieCreditsURL(api_key, Itoa(results[p].Results[1].Id)), res))]
    /\ LET r == getMovieCredits(res)
       IN  /\ movie_details' = [movie_details EXCEPT ![p].Credits = r.val]
           /\ IF r.err # NoError
                 THEN Return(p, EmptyString, r.err)
                 ELSE /\ pc' = [pc EXCEPT ![p] = "getConfig"]
                      /\ UNCHANGED ret
    /\ UNCHANGED <<api_key, config, media_name, data, results, fault, unit>>

\* getConfig handing out a Config of its own making on a populated cache
getConfig_check_fresh(p) ==
    /\ Running
    /\ pc[p] = "getConfig"
    /\ IF NeedsFetch(config)
          THEN /\ pc' = [pc EXCEPT ![p] = "fetchConfig"]
               /\ UNCHANGED movie_details
          ELSE /\ pc' = [pc EXCEPT ![p] = "marshal"]
               /\ movie_details' = [movie_details EXCEPT ![p].Config = Ptr(ZeroConfig)]
    /\ UNCHANGED <<api_key, config, media_name, data, results, ret, http, fault, unit>>

\* getConfig reads tmdb.config: a populated cache is returned as it is
getConfig_check(p) ==
    /\ Running
    /\ pc[p] = "getConfig"
    /\ IF NeedsFetch(config)
          THEN /\ pc' = [pc EXCEPT ![p] = "fetchConfig"]
               /\ UNCHANGED movie_details
          ELSE /\ pc' = [pc EXCEPT ![p] = "marshal"]
               /\ movie_details' = [movie_details EXCEPT ![p].Config = config]
    /\ UNCHANGED <<api_key, config, media_name, data, results, ret, http, fault, unit>>

\* a fetch that stores what it has in hand on failure as well
getConfig_fetch_storeOnError(p, res) ==
    /\ Running
    /\ pc[p] = "fetchConfig"
    /\ http' = [http EXCEPT ![p] = Append(@, Exchange(configURL(api_key), res))]
    /\ LET r == fetchConfig(res)
       IN  /\ movie_details' = [movie_details EXCEPT ![p].Config = r.val]
           /\ config' = r.val
           /\ IF r.err # NoError
                 THEN Return(p, EmptyString, r.err)
                 ELSE /\ pc' = [pc EXCEPT ![p] = "marshal"]
                      /\ UNCHANGED ret
    /\ UNCHANGED <<api_key, media_name, data, results, fault, unit>>

\* getConfig's GET /configuration, the store into tmdb.config, and
\* MovieData's movie_details.Config, err = ...
getConfig_fetch(p, res) ==
    /\ Running
    /\ pc[p] = "fetchConfig"
    /\ http' = [http EXCEPT ![p] = Append(@, Exchange(configURL(api_key), res))]
    /\ LET r == fetchConfig(res)
       IN  /\ movie_details' = [movie_details EXCEPT ![p].Config = r.val]
           /\ IF r.err # NoError
                 THEN Return(p, EmptyString, r.err) /\ UNCHANGED config
                 ELSE /\ config' = r.val
                      /\ pc' = [pc EXCEPT ![p] = "marshal"]
                      /\ UNCHANGED ret
    /\ UNCHANGED <<api_key, media_name, data, results, fault, unit>>

\* Id and Media_type are set, the record is marshalled and returned
MovieData_return(p) ==
    /\ Running
    /\ pc[p] = "marshal"
    /\ LET md == finishDetails(movie_details[p], results[p])
       IN  /\ movie_details' = [movie_details EXCEPT ![p] = md]
           /\ Return(p, MarshalMetadata(md), NoError)
    /\ UNCHANGED <<api_key, config, media_name, data, results, http, fault, unit>>

\* tmdb.ToJSON(d), by a caller that is not inside MovieData
ToJSON_call(p, d) ==
    /\ Running
    /\ pc[p] \in {"idle", "returned"}
    /\ data' = [data EXCEPT ![p] = d]
    /\ LET r == ToJSON(d)
       IN  IF r.fault # ""
              THEN Panic(p, r.fault) /\ UNCHANGED ret
              ELSE /\ pc' = [pc EXCEPT ![p] = "returned"]
                   /\ ret' = [ret EXCEPT ![p] = [op |-> "ToJSON", val |-> r.val, err |-> r.err]]
                   /\ UNCHANGED fault
    /\ UNCHANGED <<api_key, config, media_name, results, movie_details, http, unit>>

\* the caller drops the result; the finished call's locals are gone
Forget(p) ==
    /\ Running
    /\ pc[p] = "returned"
    /\ pc' = [pc EXCEPT ![p] = "idle"]
    /\ media_name' = [media_name EXCEPT ![p] = ""]
    /\ data' = [data EXCEPT ![p] = EmptyString]
    /\ results' = [results EXCEPT ![p] = ZeroResponse]
    /\ movie_details' = [movie_details EXCEPT ![p] = ZeroMetadata]
    /\ ret' = [ret EXCEPT ![p] = NoReturn]
    /\ http' = [http EXCEPT ![p] = <<>>]
    /\ UNCHANGED <<api_key, config, fault, unit>>

\* no other caller is inside a call or holds a result: calls do not overlap
Alone(p) == \A q \in Callers \ {p} : pc[q] = "idle"

\* MovieData returned a record to p
Succeeded(p) == pc[p] = "returned" /\ ret[p].op = "MovieData" /\ ret[p].err = NoError

\* calls on the one TMDb value, one at a time; ToJSON is given any string
\* by an idle caller, or the record the caller's MovieData just returned
Next ==
    \/ \E p \in Callers : /\ Alone(p) /\ pc[p] = "idle"
                          /\ \E name \in MediaNames : MovieData_call(p, name)
    \/ \E p \in Callers : /\ Alone(p) /\ pc[p] = "searchMovie"
                          /\ \E res \in Responses(SearchBodies) : MovieData_search(p, res)
    \/ \E p \in Callers : /\ Alone(p) /\ pc[p] = "getMovieDetails"
                          /\ \E res \in Responses(DetailsBodies) : MovieData_details(p, res)
    \/ \E p \in Callers : /\ Alone(p) /\ pc[p] = "getMovieCredits"
                          /\ \E res \in Responses(CreditsBodies) : MovieData_credits(p, res)
    \/ \E p \in Callers : Alone(p) /\ getConfig_check(p)
    \/ \E p \in Callers : /\ Alone(p) /\ pc[p] = "fetchConfig"
                          /\ \E res \in Responses(ConfigBodies) : getConfig_fetch(p, res)
    \/ \E p \in Callers : Alone(p) /\ MovieData_return(p)
    \/ \E p \in Callers : /\ Alone(p) /\ pc[p] = "idle"
                          /\ \E d \in ToJSONInputs : ToJSON_call(p, d)
    \/ \E p \in Callers : Alone(p) /\ Succeeded(p) /\ ToJSON_call(p, ret[p].val)
    \/ \E p \in Callers : Alone(p) /\ Forget(p)

Spec == Init /\ [][Next]_vars

-----------------------------------------------------------------------------
(* poster_size called directly, on every Config and requested size.        *)

SizeArgs == SizeTokens \cup {""}

InitPoster ==
    /\ InitClient
    /\ unit \in {[state |-> "ready", md |-> [ZeroMetadata EXCEPT !.Config = c],
                  size |-> s, out |-> [val |-> "", fault |-> ""]] :
                    c \in {Nil} \cup {Ptr(v) : v \in Configs}, s \in SizeArgs}

poster_size_call ==
    /\ unit.state = "ready"
    /\ unit' = [unit EXCEPT !.state = "done", !.out = poster_size(unit.md, unit.size)]
    /\ UNCHANGED <<api_key, config, pc, media_name, data, results, movie_details,
                   ret, http, fault>>

NextPoster == poster_size_call

SpecPoster == InitPoster /\ [][NextPoster]_vars

-----------------------------------------------------------------------------
(* Overlapping calls on the one TMDb value.  Nothing in the package         *)
(* synchronises tmdb.config, so getConfig is taken apart into its reads     *)
(* and its write of the field: the test of line 234, the GET and decode     *)
(* into the local conf (235-247), the store of line 248 and the read of     *)
(* the return statements (249, 251).  movie_details[p].Config holds the     *)
(* pointer the caller has in hand (its local conf, or the pointer the test  *)
(* loaded) until the return assigns it.  The two reads and the write race:  *)
(* a return may hand out the pointer already in hand or the one it loads    *)
(* again from the field, whichever the build does.                          *)

\* if tmdb.config == nil || tmdb.config.Images.Base_url == ""
getConfig_test(p) ==
    /\ Running
    /\ pc[p] = "getConfig"
    /\ IF NeedsFetch(config)
          THEN /\ pc' = [pc EXCEPT ![p] = "fetchConfig"]
               /\ UNCHANGED movie_details
          ELSE /\ pc' = [pc EXCEPT ![p] = "readConfig"]
               /\ movie_details' = [movie_details EXCEPT ![p].Config = config]
    /\ UNCHANGED <<api_key, config, media_name, data, results, ret, http, fault, unit>>

\* the GET of /configuration and the decode into the local conf
getConfig_get(p, res) ==
    /\ Running
    /\ pc[p] = "fetchConfig"
    /\ http' = [http EXCEPT ![p] = Append(@, Exchange(configURL(api_key), res))]
    /\ LET r == fetchConfig(res)
       IN  /\ movie_details' = [movie_details EXCEPT ![p].Config = r.val]
           /\ IF r.err # NoError
                 THEN Return(p, EmptyString, r.err)
                 ELSE /\ pc' = [pc EXCEPT ![p] = "storeConfig"]
                      /\ UNCHANGED ret
    /\ UNCHANGED <<api_key, config, media_name, data, results, fault, unit>>

\* a store that leaves a cache populated in the meantime alone
getConfig_store_ifUnpopulated(p) ==
    /\ Running
    /\ pc[p] = "storeConfig"
    /\ config' = IF NeedsFetch(config) THEN movie_details[p].Config ELSE config
    /\ pc' = [pc EXCEPT ![p] = "readConfig"]
    /\ UNCHANGED <<api_key, media_name, data, results, movie_details, ret, http, fault, unit>>

\* tmdb.config = conf
getConfig_store(p) ==
    /\ Running
    /\ pc[p] = "storeConfig"
    /\ config' = movie_details[p].Config
    /\ pc' = [pc EXCEPT ![p] = "readConfig"]
    /\ UNCHANGED <<api_key, media_name, data, results, movie_details, ret, http, fault, unit>>

\* return tmdb.config, nil, and MovieData's movie_details.Config, err = ...
getConfig_read(p) ==
    /\ Running
    /\ pc[p] = "readConfig"
    /\ \E c \in {movie_details[p].Config, config} :
           movie_details' = [movie_details EXCEPT ![p].Config = c]
    /\ pc' = [pc EXCEPT ![p] = "marshal"]
    /\ UNCHANGED <<api_key, config, media_name, data, results, ret, http, fault, unit>>

\* the answers served to overlapping calls: every GET before /configuration
\* succeeds with the one film, /configuration answers 200 with a Config,
\* with {} or with null, or 404
OK(body) == [err |-> NoError, StatusCode |-> 200, Body |-> body]
ConcSearch ==
    {OK(JObject([Results |-> <<[Id |-> 680, Media_type |-> "movie"]>>, Total_results |-> 1]))}
ConcDetails ==
    {OK(JObject(MetadataMembers([Id |-> 680, Media_type |-> "movie"], "Pulp Fiction",
                                FullDate, "/poster.jpg", JNull, JNull)))}
ConcCredits == {OK(JObject(SomeCredits))}
ConcConfig ==
    {OK(b) : b \in ConfigBodies \ {JInvalid}}
        \cup {[err |-> NoError, StatusCode |-> 404, Body |-> JInvalid]}

NextConc ==
    \/ \E p \in Callers : /\ pc[p] = "idle"
                          /\ \E name \in MediaNames : MovieData_call(p, name)
    \/ \E p \in Callers : /\ pc[p] = "searchMovie"
                          /\ \E res \in ConcSearch : MovieData_search(p, res)
    \/ \E p \in Callers : /\ pc[p] = "getMovieDetails"
                          /\ \E res \in ConcDetails : MovieData_details(p, res)
    \/ \E p \in Callers : /\ pc[p] = "getMovieCredits"
                          /\ \E res \in ConcCredits : MovieData_credits(p, res)
    \/ \E p \in Callers : getConfig_test(p)
    \/ \E p \in Callers : /\ pc[p] = "fetchConfig"
                          /\ \E res \in ConcConfig : getConfig_get(p, res)
    \/ \E p \in Callers : getConfig_store(p)
    \/ \E p \in Callers : getConfig_read(p)
    \/ \E p \in Callers : MovieData_return(p)
    \/ \E p \in Callers : Forget(p)

SpecConc == Init /\ [][NextConc]_vars

-----------------------------------------------------------------------------
(* Properties.  They are stated on what a caller can observe: the          *)
(* exchanges its call made (http), what the call returned (ret), the       *)
(* cache (config) and a panic (fault).                                     *)

\* the Config counts as populated: present, with a non-empty Base_url
Populated(c) == c # Nil /\ Deref(c).Images.Base_url # ""

\* how many GET /configuration the caller's current call has made
ConfigGets(p) ==
    Cardinality({i \in 1..Len(http[p]) : http[p][i].req.path = "/configuration"})

\* the exchange succeeded: no transport error, status 200, a decodable body
StepOK(x) == x.res.err = NoError /\ x.res.StatusCode = 200 /\ IsJSON(x.res.Body)

\* C1: once the cached Config has a non-empty Images.Base_url, no step of
\* any later (non-overlapping) MovieData call issues a /configuration
\* request, the cache keeps its value, and getConfig hands out exactly the
\* cached Config.
C1_PopulatedCacheIsNeverRefetched ==
    [][Populated(config) =>
          /\ config' = config
          /\ \A p \in Callers :
                /\ ConfigGets(p)' <= ConfigGets(p)
                /\ (pc[p] = "getConfig" /\ pc'[p] # "getConfig") =>
                      (pc'[p] = "marshal" /\ movie_details'[p].Config = config)
      ]_vars

\* a call got the Config from the populated cache without a request
C1_Witness ==
    \E p \in Callers :
        /\ pc[p] = "marshal"
        /\ Populated(config)
        /\ ConfigGets(p) = 0
        /\ movie_details[p].Config = config

\* what a body says, read as a value of the type with zero value `zero`
DocValue(doc, zero) == IF doc.json = "object" THEN doc.members ELSE zero

\* the caller's search was answered with status 200 and a decodable body
Searched(p) == Len(http[p]) >= 1 /\ StepOK(http[p][1])
\* that answer
SearchAnswer(p) == DocValue(http[p][1].res.Body, ZeroResponse)

\* what MovieData returns when it fails with err
Failed(err) == [op |-> "MovieData", val |-> EmptyString, err |-> err]

\* C2: when the search response has Total_results = 0, MovieData fails
\* with the no-results error and the empty string, and the search is the
\* only request the call makes.
C2_NoResultsFailsAfterSearchOnly ==
    \A p \in Callers :
        (Searched(p) /\ SearchAnswer(p).Total_results = 0) =>
            /\ pc[p] = "returned"
            /\ ret[p] = Failed(ErrNoResults)
            /\ Len(http[p]) = 1

\* a response that counts no results although it lists one
C2_Witness ==
    \E p \in Callers :
        /\ Searched(p)
        /\ SearchAnswer(p).Total_results = 0
        /\ Len(SearchAnswer(p).Results) > 0
        /\ pc[p] = "returned"

\* C3: when the search response has results (Total_results # 0 and a first
\* entry), a first entry of kind "person" fails with the person error and
\* one of kind "tv" with the tv error, both with the empty string and no
\* further request; any other kind goes on to /movie/{Results[0].Id} and
\* /movie/{Results[0].Id}/credits.
C3_DisambiguationByFirstResult ==
    \A p \in Callers :
        (Searched(p) /\ SearchAnswer(p).Total_results # 0
                     /\ Len(SearchAnswer(p).Results) >= 1) =>
            LET first == SearchAnswer(p).Results[1]
                id == ToString(first.Id)
            IN  IF first.Media_type = "person"
                   THEN /\ pc[p] = "returned" /\ ret[p] = Failed(ErrPerson)
                        /\ Len(http[p]) = 1
                ELSE IF first.Media_type = "tv"
                   THEN /\ pc[p] = "returned" /\ ret[p] = Failed(ErrTv)
                        /\ Len(http[p]) = 1
                ELSE /\ Len(http[p]) = 1 => pc[p] = "getMovieDetails"
                     /\ Len(http[p]) >= 2 => http[p][2].req.path = "/movie/" \o id
                     /\ Len(http[p]) >= 3 =>
                            http[p][3].req.path = "/movie/" \o id \o "/credits"

\* a first result of an unknown or empty kind went on to the details
C3_Witness ==
    \E p \in Callers :
        /\ Searched(p)
        /\ SearchAnswer(p).Total_results # 0
        /\ Len(SearchAnswer(p).Results) >= 1
        /\ SearchAnswer(p).Results[1].Media_type \in {"", "collection"}
        /\ Len(http[p]) >= 2

\* the error a failed exchange stands for
StepError(x) ==
    IF x.res.err # NoError THEN x.res.err
    ELSE IF x.res.StatusCode # 200 THEN error_status(x.res.StatusCode)
    ELSE ErrDecode

\* the record that the call's exchanges and the cache add up to
MergedRecord(p) ==
    LET d == DocValue(http[p][2].res.Body, MetadataMembers(ZeroMetadata, "", "", "", JNull, JNull))
        c == DocValue(http[p][3].res.Body, ZeroCredits)
        k == IF Len(http[p]) >= 4 THEN http[p][4].res.Body
             ELSE JObject(Deref(config))
    IN  JObject([Id |-> SearchAnswer(p).Results[1].Id, Media_type |-> "movie",
                 Poster_path |-> d.Poster_path, Credits |-> JObject(c), Config |-> k,
                 Title |-> d.Title, Release_date |-> d.Release_date])

\* C4: assembly is all-or-nothing.  An exchange that fails (transport
\* error, status other than 200, undecodable body) is the call's last, and
\* the call returns that step's error with the empty string; a call that
\* returns a record returns no error, every one of its exchanges succeeded,
\* the config came from its own fetch or from the populated cache, and the
\* record is the merge of what details, credits and config said.
C4_AssemblyIsAllOrNothing ==
    \A p \in Callers :
        /\ \A i \in 1..Len(http[p]) :
              ~StepOK(http[p][i]) =>
                  /\ i = Len(http[p])
                  /\ pc[p] = "returned"
                  /\ ret[p] = Failed(StepError(http[p][i]))
        /\ (pc[p] = "returned" /\ ret[p].op = "MovieData") =>
              /\ ret[p].err # NoError => ret[p].val = EmptyString
              /\ ret[p].val # EmptyString =>
                    /\ ret[p].err = NoError
                    /\ Len(http[p]) \in {3, 4}
                    /\ \A i \in 1..Len(http[p]) : StepOK(http[p][i])
                    /\ Len(http[p]) = 3 => Populated(config)
                    /\ ret[p].val = MergedRecord(p)

\* the credits came back undecodable after search and details had succeeded
C4_Witness ==
    \E p \in Callers :
        /\ Len(http[p]) = 3
        /\ http[p][3].res.StatusCode = 200
        /\ http[p][3].res.Body = JInvalid
        /\ ret[p] = Failed(ErrDecode)

\* the requests of one call, in order
Paths(p) == [i \in 1..Len(http[p]) |-> http[p][i].req.path]
CallOrder(id) ==
    <<"/search/movie", "/movie/" \o id, "/movie/" \o id \o "/credits", "/configuration">>

\* C5: the requests a MovieData call has issued are always a prefix of
\* search, details, credits, configuration, each issued once; every request
\* but the last one issued was answered successfully; a call that got its
\* Config made either all four requests or, with the cache populated, the
\* first three.
C5_RequestsAreSequentialPrefix ==
    \A p \in Callers :
        LET n == Len(http[p]) IN
        /\ n <= 4
        /\ n >= 1 => Paths(p)[1] = "/search/movie"
        /\ n >= 2 => Paths(p) = SubSeq(CallOrder(ToString(SearchAnswer(p).Results[1].Id)), 1, n)
        /\ \A i, j \in 1..n : i # j => http[p][i].req # http[p][j].req
        /\ \A i \in 1..(n - 1) : StepOK(http[p][i])
        /\ pc[p] = "searchMovie" => n = 0
        /\ pc[p] = "getMovieDetails" => n = 1
        /\ pc[p] = "getMovieCredits" => n = 2
        /\ pc[p] \in {"getConfig", "fetchConfig"} => n = 3
        /\ (pc[p] = "marshal" \/ Succeeded(p)) =>
              (n = 4 \/ (n = 3 /\ Populated(config)))

\* a call that made all four requests and returned a record
C5_Witness ==
    \E p \in Callers : Succeeded(p) /\ Len(http[p]) = 4

\* C6: every record MovieData returns carries a Config that is present and
\* has a non-empty Images.Base_url, whatever the 200, decodable
\* configuration response was.
C6_ReturnedRecordHasPopulatedConfig ==
    \A p \in Callers :
        Succeeded(p) =>
            /\ ret[p].val.members.Config.json = "object"
            /\ ret[p].val.members.Config.members.Images.Base_url # ""

\* the entries of a list
Entries(L) == {L[i] : i \in 1..Len(L)}

\* the size the policy names for list L and the requested size
PolicySize(L, preferred) ==
    IF L = <<>> THEN "original"
    ELSE IF preferred \in Entries(L) THEN preferred
    ELSE L[1]

\* C7 (amended): poster_size(preferred) returns "original" for an empty
\* list, preferred when it occurs anywhere in the list, and otherwise the
\* list's first entry, whatever that entry is.
C7_PosterSizePolicy ==
    (unit.state = "done" /\ unit.md.Config # Nil) =>
        /\ unit.out.fault = ""
        /\ unit.out.val = PolicySize(Deref(unit.md.Config).Images.Poster_sizes, unit.size)

\* the requested size is listed second, after a different entry
C7_Witness ==
    /\ unit.state = "done"
    /\ unit.md.Config # Nil
    /\ Len(Deref(unit.md.Config).Images.Poster_sizes) = 2
    /\ Deref(unit.md.Config).Images.Poster_sizes[2] = unit.size
    /\ Deref(unit.md.Config).Images.Poster_sizes[1] # unit.size
    /\ unit.out.val = unit.size

\* C7 as stated: the policy, and for a non-empty list without the requested
\* size the result is never "original".
C7_AsStated ==
    (unit.state = "done" /\ unit.md.Config # Nil) =>
        LET L == Deref(unit.md.Config).Images.Poster_sizes IN
        /\ unit.out.val = PolicySize(L, unit.size)
        /\ (L # <<>> /\ unit.size \notin Entries(L)) => unit.out.val # "original"

\* ToJSON returned an output to p
Transformed(p) == pc[p] = "returned" /\ ret[p].op = "ToJSON" /\ ret[p].err = NoError

\* C8: the year ToJSON writes is the first 4 characters of Release_date when
\* the date is longer than 4, and the date itself otherwise; ToJSON never
\* slices past the end of the date.
C8_YearIsTruncatedDate ==
    /\ fault # PanicSlice
    /\ \A p \in Callers :
          Transformed(p) =>
              LET d == data[p].members.Release_date
                  y == ret[p].val.members.year
              IN  /\ Len(d) > 4 => (Len(y) = 4 /\ y = SubSeq(d, 1, 4))
                  /\ Len(d) <= 4 => y = d

\* a date one character longer than a year was cut
C8_Witness ==
    \E p \in Callers :
        /\ Transformed(p)
        /\ Len(data[p].members.Release_date) = 5
        /\ ret[p].val.members.year = "1994"

\* p called ToJSON on the record its MovieData returned
OnOwnRecord(p) == Len(http[p]) >= 3 /\ data[p] # EmptyString

\* C9: ToJSON applied to the output of a successful MovieData succeeds, and
\* its title is the details' title, its year the truncated release date,
\* its artwork Base_url + poster_size("w154") + Poster_path of the Config
\* MovieData attached.
C9_EndToEnd ==
    \A p \in Callers :
        /\ OnOwnRecord(p) => pc[p] = "returned" /\ ret[p].op = "ToJSON" /\ ret[p].err = NoError
        /\ (OnOwnRecord(p) /\ Transformed(p)) =>
              LET d == DocValue(http[p][2].res.Body,
                                MetadataMembers(ZeroMetadata, "", "", "", JNull, JNull))
                  c == data[p].members.Config.members.Images
                  o == ret[p].val.members
              IN  /\ o.title = d.Title
                  /\ o.year = (IF Len(d.Release_date) > 4 THEN SubSeq(d.Release_date, 1, 4)
                               ELSE d.Release_date)
                  /\ o.artwork = c.Base_url \o PolicySize(c.Poster_sizes, "w154")
                                     \o d.Poster_path

\* C10: a returned record's Id is the search's Results[0].Id and its
\* Media_type is "movie", whatever the details response said of itself.
C10_IdAndMediaTypeAreForced ==
    \A p \in Callers :
        Succeeded(p) =>
            /\ ret[p].val.members.Id = SearchAnswer(p).Results[1].Id
            /\ ret[p].val.members.Media_type = "movie"

\* the details response named another id and kind than the record carries
C10_Witness ==
    \E p \in Callers :
        /\ Succeeded(p)
        /\ http[p][2].res.Body.json = "object"
        /\ http[p][2].res.Body.members.Id # SearchAnswer(p).Results[1].Id
        /\ http[p][2].res.Body.members.Media_type = "tv"

\* the text of the status error for code c
StatusMessage(c) == "Status Code " \o ToString(c) \o " received from TMDb"

\* an exchange that got a response with a status outside 200..299
NonSuccessStatus(x) == x.res.err = NoError /\ x.res.StatusCode \notin 200..299

\* the local that the i-th GET of a call decodes into still holds the value
\* it has when nothing was decoded
NothingDecoded(p, i) ==
    CASE i = 1 -> results[p] = ZeroResponse
      [] i = 2 -> movie_details[p] = ZeroMetadata
      [] i = 3 -> movie_details[p].Credits = ZeroCredits
      [] i = 4 -> movie_details[p].Config = Ptr(ZeroConfig) /\ ~Populated(config)

\* C11: on every endpoint a response with a status code c outside 2xx ends
\* the call with the error "Status Code c received from TMDb" and the empty
\* string, and its body, decodable or not, is not decoded.
C11_NonSuccessStatusIsReported ==
    \A p \in Callers :
        \A i \in 1..Len(http[p]) :
            NonSuccessStatus(http[p][i]) =>
                /\ i = Len(http[p])
                /\ pc[p] = "returned"
                /\ ret[p] = Failed(StatusMessage(http[p][i].res.StatusCode))
                /\ NothingDecoded(p, i)

\* /movie/{id}/credits answered 500 with a body that would have decoded
C11_Witness ==
    \E p \in Callers :
        /\ Len(http[p]) = 3
        /\ http[p][3].res.StatusCode = 500
        /\ http[p][3].res.Body = JObject(SomeCredits)
        /\ ret[p] = Failed(StatusMessage(500))

\* the local that the i-th GET of a call decodes into holds what the body says
Decoded(p, i) ==
    LET b == http[p][i].res.Body IN
    CASE i = 1 -> results[p] = DocValue(b, ZeroResponse)
      [] i = 2 -> LET d == DocValue(b, MetadataMembers(ZeroMetadata, "", "", "", JNull, JNull))
                  IN  /\ movie_details[p].Title = d.Title
                      /\ movie_details[p].Release_date = d.Release_date
                      /\ movie_details[p].Poster_path = d.Poster_path
      [] i = 3 -> movie_details[p].Credits = DocValue(b, ZeroCredits)
      [] i = 4 -> /\ movie_details[p].Config = (IF b.json = "null" THEN Nil ELSE Ptr(b.members))
                  /\ config = movie_details[p].Config

\* the call ended on its i-th exchange with a status error
EndedOnStatus(p, i) ==
    /\ i = Len(http[p])
    /\ pc[p] = "returned"
    /\ \E c \in StatusCodes : ret[p] = Failed(StatusMessage(c))

\* C12 (amended): on every endpoint a response with status 200 is taken for
\* success, its body handed to the decoder and no status error produced;
\* every other status code, the other 2xx codes included, ends the call
\* with the status error for that code.
C12_Only200IsSuccess ==
    \A p \in Callers :
        \A i \in 1..Len(http[p]) :
            LET x == http[p][i] IN
            /\ (x.res.err = NoError /\ x.res.StatusCode = 200) =>
                  /\ ~EndedOnStatus(p, i)
                  /\ IF IsJSON(x.res.Body) THEN Decoded(p, i)
                     ELSE i = Len(http[p]) /\ ret[p] = Failed(ErrDecode)
            /\ (x.res.err = NoError /\ x.res.StatusCode # 200) =>
                  /\ i = Len(http[p])
                  /\ ret[p] = Failed(StatusMessage(x.res.StatusCode))

\* /configuration answered 200 and its body was decoded and stored
C12_Witness ==
    \E p \in Callers :
        /\ Len(http[p]) = 4
        /\ http[p][4].res.StatusCode = 200
        /\ http[p][4].res.Body.json = "object"
        /\ config = Ptr(http[p][4].res.Body.members)

\* C12 as stated: every response with a 2xx status is taken for success,
\* its body handed to the decoder and no status error produced.
C12_AsStated ==
    \A p \in Callers :
        \A i \in 1..Len(http[p]) :
            LET x == http[p][i] IN
            (x.res.err = NoError /\ x.res.StatusCode \in 200..299) =>
                /\ ~EndedOnStatus(p, i)
                /\ IF IsJSON(x.res.Body) THEN Decoded(p, i)
                   ELSE i = Len(http[p]) /\ ret[p] = Failed(ErrDecode)

\* C13: two MovieData calls overlapping on a fresh client: a caller that
\* passed getConfig's test issues its /configuration request whatever the
\* cache holds by then, and its store replaces whatever the cache holds by
\* then; so both callers can pass the test on the empty cache, both fetch,
\* and the later store overwrites the earlier one (C13_Witness).
C13_FetchAndStoreAreUnconditional ==
    [][\A p \in Callers :
          /\ (pc[p] = "fetchConfig" /\ pc'[p] # "fetchConfig") =>
                 ConfigGets(p)' = ConfigGets(p) + 1
          /\ (pc[p] = "storeConfig" /\ pc'[p] # "storeConfig") =>
                 config' = movie_details[p].Config]_vars

\* both callers fetched a different populated Config and both have stored:
\* the cache holds the second caller's, the first caller's store is gone
C13_Witness ==
    \E p, q \in Callers :
        /\ p # q
        /\ pc[p] = "readConfig" /\ pc[q] = "readConfig"
        /\ ConfigGets(p) = 1 /\ ConfigGets(q) = 1
        /\ Populated(movie_details[p].Config) /\ Populated(movie_details[q].Config)
        /\ movie_details[p].Config # movie_details[q].Config
        /\ config = movie_details[q].Config

\* the exchange a caller's step has just added to its log
Latest(p) == http[p][Len(http[p])]

\* the pointer that decoding a /configuration body leaves in conf
FetchedConfig(body) == IF body.json = "null" THEN Nil ELSE Ptr(body.members)

\* C14: getConfig called while the cache is nil or has an empty Base_url
\* goes on to fetch, issues exactly one /configuration request, and when
\* that request succeeds the cache afterwards holds exactly the fetched
\* Config, in place of whatever it held, and the same Config is what
\* getConfig returns; a fetched Config with an empty Base_url is stored all
\* the same, and being unpopulated sends the next call to fetch again.
C14_UnpopulatedCacheIsFetchedAndReplaced ==
    [][\A p \in Callers :
          /\ (pc[p] = "getConfig" /\ ~Populated(config) /\ pc'[p] # "getConfig") =>
                 /\ pc'[p] = "fetchConfig"
                 /\ ConfigGets(p)' = 0
                 /\ config' = config
          /\ (pc[p] = "fetchConfig" /\ pc'[p] # "fetchConfig") =>
                 /\ Len(http'[p]) = Len(http[p]) + 1
                 /\ Latest(p)'.req.path = "/configuration"
                 /\ ConfigGets(p)' = 1
                 /\ StepOK(Latest(p)') =>
                        /\ config' = FetchedConfig(Latest(p)'.res.Body)
                        /\ movie_details'[p].Config = config'
                        /\ pc'[p] = "marshal"
          /\ (pc[p] # "fetchConfig") => ConfigGets(p)' <= ConfigGets(p)]_vars

\* an earlier call fetched and stored a Config with an empty Base_url, and
\* the present call, having tested it, is about to fetch again
C14_Witness ==
    \E p \in Callers :
        /\ pc[p] = "fetchConfig"
        /\ config # Nil
        /\ ~Populated(config)

\* two search answers with the same count and the same first result
SameHead(a, b) ==
    /\ a.Total_results = b.Total_results
    /\ (Len(a.Results) = 0) = (Len(b.Results) = 0)
    /\ Len(a.Results) > 0 => a.Results[1] = b.Results[1]

\* the record made of film id and of what the call's details, credits and
\* config exchanges (or the cache) said
RecordOf(p, id) ==
    LET d == DocValue(http[p][2].res.Body, MetadataMembers(ZeroMetadata, "", "", "", JNull, JNull))
        c == DocValue(http[p][3].res.Body, ZeroCredits)
        k == IF Len(http[p]) >= 4 THEN http[p][4].res.Body
             ELSE JObject(Deref(config))
    IN  JObject([Id |-> id, Media_type |-> "movie",
                 Poster_path |-> d.Poster_path, Credits |-> JObject(c), Config |-> k,
                 Title |-> d.Title, Release_date |-> d.Release_date])

\* the call of p is what a call answered r by the search, and answered as p
\* was by every later request, comes to; of r only Total_results and
\* Results[0] are read
OutcomeFitsHead(p, r) ==
    LET n == Len(http[p]) IN
    IF r.Total_results = 0
       THEN n = 1 /\ pc[p] = "returned" /\ ret[p] = Failed(ErrNoResults)
    ELSE IF Len(r.Results) = 0
       THEN n = 1 /\ pc[p] = "panicked"
    ELSE IF r.Results[1].Media_type = "person"
       THEN n = 1 /\ pc[p] = "returned" /\ ret[p] = Failed(ErrPerson)
    ELSE IF r.Results[1].Media_type = "tv"
       THEN n = 1 /\ pc[p] = "returned" /\ ret[p] = Failed(ErrTv)
    ELSE /\ n = 1 => pc[p] = "getMovieDetails"
         /\ Paths(p) = SubSeq(CallOrder(ToString(r.Results[1].Id)), 1, n)
         /\ pc[p] = "returned" =>
                IF StepOK(Latest(p))
                   THEN ret[p] = [op |-> "MovieData", err |-> NoError,
                                  val |-> RecordOf(p, r.Results[1].Id)]
                   ELSE ret[p] = Failed(StepError(Latest(p)))

\* C15: MovieData's outcome depends on the search response only through
\* Total_results and Results[0]: whatever search answer agrees with the one
\* the call received on the count and on the first result, the requests the
\* call issues and the record or error it returns are the ones that answer
\* gives rise to; later results and all else in the response have no effect.
C15_OnlyTheHeadOfTheSearchCounts ==
    \A p \in Callers :
        (Searched(p) /\ ret[p].op # "ToJSON") =>
            \A r \in SearchValues :
                SameHead(SearchAnswer(p), r) => OutcomeFitsHead(p, r)

\* a record returned for a search that listed a series after the film
C15_Witness ==
    \E p \in Callers :
        /\ Succeeded(p)
        /\ Len(SearchAnswer(p).Results) = 2
        /\ SearchAnswer(p).Results[2].Media_type = "tv"

\* a *tmdbConfig as json.Marshal writes it
ConfigJSON(c) == IF c = Nil THEN JNull ELSE JObject(Deref(c))

\* C16: when MovieData returns a record, the Config in it is the client's
\* cached Config: the pointer the call holds is the cache's, and the Config
\* written into the record equals the cache's content at the return,
\* whether the call fetched it or found it cached.
C16_ReturnedConfigIsTheCache ==
    \A p \in Callers :
        /\ pc[p] = "marshal" => movie_details[p].Config = config
        /\ Succeeded(p) =>
              /\ movie_details[p].Config = config
              /\ ret[p].val.json = "object"
              /\ ret[p].val.members.Config = ConfigJSON(config)

\* a record returned by a call that found the cache populated
C16_Witness ==
    \E p \in Callers :
        /\ Succeeded(p)
        /\ Len(http[p]) = 3
        /\ Populated(config)
        /\ ret[p].val.members.Config = JObject(Deref(config))

\* C17: MovieData never reads Results[0] of an empty Results: a search
\* answer with no entries, Total_results above zero included, ends in a
\* returned error (or record), never in a fault.
C17_EmptyResultsAreNotIndexed ==
    \A p \in Callers :
        (Searched(p) /\ Len(SearchAnswer(p).Results) = 0) =>
            /\ pc[p] = "returned"
            /\ fault # PanicIndex

\* C18: ToJSON returns an output or an error for every input; an input that
\* decodes, its Config absent or null included, comes back as a returned
\* value and the missing Config is not dereferenced.
C18_ToJSONReturnsForEveryInput ==
    \A p \in Callers :
        IsJSON(data[p]) =>
            /\ pc[p] = "returned"
            /\ ret[p].op = "ToJSON"
            /\ fault # PanicNil

\* C19: a getConfig whose fetch fails (transport error, status other than
\* 200, undecodable body) leaves the cached Config exactly as it was: the
\* call returns that error, the cache keeps its value and stays
\* unpopulated; no failing step of MovieData changes the cache; and the
\* next call that reaches getConfig goes to the fetch again.
C19_FailedFetchLeavesTheCache ==
    [][\A p \in Callers :
          /\ (pc[p] = "fetchConfig" /\ pc'[p] # "fetchConfig" /\ ~StepOK(Latest(p)')) =>
                 /\ config' = config
                 /\ ~Populated(config')
                 /\ pc'[p] = "returned"
                 /\ ret'[p] = Failed(StepError(Latest(p)'))
          /\ (pc[p] # "returned" /\ pc'[p] = "returned" /\ ret'[p].err # NoError) =>
                 config' = config
          /\ (pc[p] = "getConfig" /\ pc'[p] # "getConfig" /\ ~Populated(config)) =>
                 pc'[p] = "fetchConfig"]_vars

\* a call failed at /configuration and the cache still holds the
\* unpopulated Config an earlier call had stored
C19_Witness ==
    \E p \in Callers :
        /\ pc[p] = "returned"
        /\ Len(http[p]) = 4
        /\ ~StepOK(http[p][4])
        /\ ret[p] = Failed(StepError(http[p][4]))
        /\ config = Ptr(ZeroConfig)

\* the year of a release date
YearOf(date) == IF Len(date) > 4 THEN SubSeq(date, 1, 4) ELSE date

\* what ToJSON makes of the string d, read off d alone
PublishedOf(d) ==
    IF ~IsJSON(d) THEN [op |-> "ToJSON", val |-> EmptyString, err |-> ErrDecode]
    ELSE LET m == d.members
             i == m.Config.members.Images
         IN  [op |-> "ToJSON", err |-> NoError,
              val |-> JObject([title |-> m.Title,
                               artwork |-> i.Base_url \o PolicySize(i.Poster_sizes, "w154")
                                               \o m.Poster_path,
                               year |-> YearOf(m.Release_date)])]

\* the string has no Config for ToJSON to read
LacksConfig(d) == d.json = "null" \/ (d.json = "object" /\ d.members.Config.json = "null")

\* C20: ToJSON is pure.  A ToJSON step issues no request and leaves the api
\* key and the cached Config as they were, and what it returns (or that it
\* faults) is determined by the string passed in: title, year and artwork
\* come from the record and the Config embedded in it, not from the
\* client's cache.
C20_ToJSONIsPure ==
    [][\A p \in Callers :
          (/\ pc[p] \in {"idle", "returned"}
           /\ pc'[p] \in {"returned", "panicked"}) =>
              /\ http' = http
              /\ api_key' = api_key
              /\ config' = config
              /\ IF LacksConfig(data'[p])
                    THEN pc'[p] = "panicked"
                    ELSE pc'[p] = "returned" /\ ret'[p] = PublishedOf(data'[p])]_vars

\* an output made while the client's cache holds a populated Config other
\* than the one embedded in the input
C20_Witness ==
    \E p \in Callers :
        /\ Transformed(p)
        /\ Populated(config)
        /\ data[p].members.Config.json = "object"
        /\ data[p].members.Config.members # Deref(config)
        /\ ret[p] = PublishedOf(data[p])

====
